---------------------------- MODULE Spec2Model ----------------------------
(***************************************************************************)
(* Model of the client hook useFlags of @happykit/flags: the reducer that  *)
(* tracks the pending and the settled evaluation, the effect list it       *)
(* returns, the effect runner that performs the fetches, the evaluation    *)
(* cache and the visitor-key cookie.                                       *)
(*                                                                         *)
(* React applies dispatched actions to the [state, effects] tuple in       *)
(* dispatch order and runs a useEffect callback after a render whose       *)
(* dependencies changed identity.  Several actions dispatched in one batch *)
(* are reduced before the next render, so the steps "an action is reduced" *)
(* and "an effect callback runs" are separate actions of the model.        *)
(***************************************************************************)
EXTENDS Naturals, Sequences, FiniteSets

\* Number of fetch effects the reducer may emit in one behaviour.
MaxEffects == 3

(***************************************************************************)
(* Values                                                                  *)
(***************************************************************************)

\* JavaScript null.
Null == [null |-> TRUE]

\* JavaScript undefined (state.pending?.input with pending null).
Undefined == [undefined |-> TRUE]

\* An absent string (falsy in `if (visitorKey)`).
NoKey == ""

\* The identifier drawn once per hook instance: React.useState(nanoid).
generatedVisitorKey == "gen"

\* The visitor key the evaluation service assigns.
ServerKeys == {NoKey, "srv"}

\* options.user || null; the user stays the same in this model.
currentUser == "null"

\* The values options.traits || null takes.
TraitsSet == {"null", "t1"}

\* The flags a response body of the service carries (an initialState carries
\* other ones).
FlagSets == {[size |-> "large"]}

\* config.defaultFlags.
defaultFlags == [size |-> "medium", beta |-> "off"]

\* Outcome: { responseBody: { flags, visitor?: { key } } }.
Outcomes == [flags : FlagSets, visitorKey : ServerKeys]

mkInput(visitorKey, traits, static) ==
    [visitorKey |-> visitorKey, user |-> currentUser, traits |-> traits,
     static |-> static]

\* The initialState a page can pass in: none, or the input and the outcome
\* (or error) of a server-side or static evaluation.
InitialStates ==
    {Null}
    \cup {[input |-> mkInput("srv", "null", FALSE),
           outcome |-> [flags |-> [size |-> "small"], visitorKey |-> "srv"]],
          [input |-> mkInput(NoKey, "null", TRUE),
           outcome |-> [flags |-> [size |-> "small"], visitorKey |-> NoKey]],
          [input |-> mkInput("srv", "null", FALSE),
           outcome |-> Null, error |-> "response-not-ok"]}

(***************************************************************************)
(* utils: deepEqual, ObjectMap, cookies, flag merging                      *)
(***************************************************************************)

\* Deep structural equality of two values.
deepEqual(a, b) == a = b

\* ObjectMap: a map whose keys are compared structurally, held as a set of
\* entries.
ObjectMapGet(m, key) ==
    IF \E e \in m : deepEqual(e.key, key)
    THEN (CHOOSE e \in m : deepEqual(e.key, key)).value
    ELSE Null

ObjectMapSet(m, key, value) ==
    {e \in m : ~deepEqual(e.key, key)} \cup {[key |-> key, value |-> value]}

\* document.cookie = serializeVisitorKeyCookie(key): the jar then holds key
\* under the name hkvk.
serializeVisitorKeyCookie(jar, key) == [jar EXCEPT !["hkvk"] = key]

getCookie(jar, name) == IF name \in DOMAIN jar THEN jar[name] ELSE NoKey

\* rawFlags merged onto the default flags, rawFlags winning per key.
combineRawFlagsWithDefaultFlags(rawFlags, defaults) ==
    IF rawFlags = Null
    THEN defaults
    ELSE [k \in (DOMAIN defaults) \cup (DOMAIN rawFlags) |->
             IF k \in DOMAIN rawFlags THEN rawFlags[k] ELSE defaults[k]]

(***************************************************************************)
(* State                                                                   *)
(***************************************************************************)
VARIABLES
    options,         \* the options of the hook: initialState, traits, ready,
                     \* revalidateOnFocus
    listener,        \* the visibilitychange listener of the hook, or Null
    mounted,         \* the first commit ran and the component is mounted
    state,           \* tuple[0]: [current, pending]
    effects,         \* tuple[1]: the effect list the reducer returned last
    effectsChanged,  \* the effect list is one the effect runner has not run
    stateChanged,    \* the input effect's dependencies changed since it ran
    cache,           \* the module-level ObjectMap
    cookie,          \* document.cookie
    inflight,        \* the network calls issued and not yet completed
    effectIds,       \* history: the number of each effect of the list
    emitted,         \* history: how many effects the reducer has emitted
    executed,        \* history: how often the runner executed each effect
    lastAccepted,    \* history: the request whose response current is from
    lastSettle,      \* history: the network call that ended last
    discarded        \* the component was unmounted

vars == <<options, listener, mounted, state, effects, effectsChanged, stateChanged,
          cache, cookie, inflight, effectIds, emitted, executed,
          lastAccepted, lastSettle, discarded>>

(***************************************************************************)
(* The reducer                                                             *)
(***************************************************************************)

\* state.pending?.input
pendingInput(st) == IF st.pending = Null THEN Undefined ELSE st.pending.input

\* state.current?.input
currentInput(st) == IF st.current = Null THEN Undefined ELSE st.current.input

\* The value a tuple of the hook holds; isNew tells a tuple the reducer built
\* from the tuple it was given and returned unchanged.
mkTuple(st, effs) == [state |-> st, effects |-> effs, isNew |-> FALSE]

\* Mutant of isEmergingInput: the input is compared with current's input
\* whether or not an input is pending.
isEmergingInput_ignoresPending(input, st) ==
    IF st.current # Null
    THEN ~deepEqual(st.current.input, input)
    ELSE IF st.pending # Null
         THEN ~deepEqual(st.pending.input, input)
         ELSE TRUE

isEmergingInput(input, st) ==
    IF st.pending # Null
    THEN ~deepEqual(st.pending.input, input)
    ELSE IF st.current # Null
         THEN ~deepEqual(st.current.input, input)
         ELSE TRUE

\* Mutant of reduceEvaluate: failing hard at once, current is dropped when the
\* evaluation starts.
reduceEvaluate_dropsCurrent(tuple, action) ==
    [state |-> [current |-> Null,
                pending |-> [input |-> action.input,
                             cachedOutcome |->
                                 ObjectMapGet(cache, action.input)]],
     effects |-> <<[type |-> "fetch", input |-> action.input]>>,
     isNew |-> TRUE]

\* Mutant of reduceEvaluate: the input becomes pending and no fetch effect
\* is emitted for it.
reduceEvaluate_emitsNothing(tuple, action) ==
    [state |-> [tuple.state EXCEPT
                    !.pending = [input |-> action.input,
                                 cachedOutcome |->
                                     ObjectMapGet(cache, action.input)]],
     effects |-> <<>>,
     isNew |-> TRUE]

\* case "evaluate"
reduceEvaluate(tuple, action) ==
    LET cachedOutcome == ObjectMapGet(cache, action.input)
    IN  [state |-> [tuple.state EXCEPT
                       !.pending = [input |-> action.input,
                                    cachedOutcome |-> cachedOutcome]],
         effects |-> <<[type |-> "fetch", input |-> action.input]>>,
         isNew |-> TRUE]

\* Mutant of reduceRevalidate: state.current?.input || state.pending?.input.
reduceRevalidate_prefersCurrent(tuple, action) ==
    LET latestInput == IF currentInput(tuple.state) # Undefined
                       THEN currentInput(tuple.state)
                       ELSE pendingInput(tuple.state)
    IN  IF latestInput = Undefined
        THEN tuple
        ELSE [state |-> [tuple.state EXCEPT
                            !.pending =
                                [input |-> latestInput,
                                 cachedOutcome |->
                                     ObjectMapGet(cache, latestInput)]],
              effects |-> <<[type |-> "fetch", input |-> latestInput]>>,
              isNew |-> TRUE]

\* case "revalidate"
reduceRevalidate(tuple, action) ==
    LET latestInput == IF pendingInput(tuple.state) # Undefined
                       THEN pendingInput(tuple.state)
                       ELSE currentInput(tuple.state)
    IN  IF latestInput = Undefined
        THEN tuple
        ELSE [state |-> [tuple.state EXCEPT
                            !.pending =
                                [input |-> latestInput,
                                 cachedOutcome |->
                                     ObjectMapGet(cache, latestInput)]],
              effects |-> <<[type |-> "fetch", input |-> latestInput]>>,
              isNew |-> TRUE]

\* Mutant of reduceSettleSuccess: the accepted outcome is written to current
\* and the input stays pending.
reduceSettleSuccess_keepsPending(tuple, action) ==
    IF ~deepEqual(action.input, pendingInput(tuple.state))
    THEN tuple
    ELSE [state |-> [tuple.state EXCEPT
                         !.current = [input |-> action.input,
                                      outcome |-> action.outcome]],
          effects |-> <<>>,
          isNew |-> TRUE]

\* case "settle/success"
reduceSettleSuccess(tuple, action) ==
    IF ~deepEqual(action.input, pendingInput(tuple.state))
    THEN tuple
    ELSE [state |-> [tuple.state EXCEPT
                        !.current = [input |-> action.input,
                                     outcome |-> action.outcome],
                        !.pending = Null],
          effects |-> <<>>,
          isNew |-> TRUE]

\* Mutant of reduceSettleFailure: outdated responses are not skipped.
reduceSettleFailure_acceptsStale(tuple, action) ==
    [state |-> [tuple.state EXCEPT
                   !.current = [input |-> action.input,
                                outcome |-> Null,
                                error |-> action.error,
                                cachedOutcome |->
                                    ObjectMapGet(cache, action.input)],
                   !.pending = Null],
     effects |-> <<>>,
     isNew |-> TRUE]

\* Mutant of reduceSettleFailure: the cache is not read, cachedOutcome is null
\* as in the initial state.
reduceSettleFailure_noCachedOutcome(tuple, action) ==
    IF ~deepEqual(action.input, pendingInput(tuple.state))
    THEN tuple
    ELSE [state |-> [tuple.state EXCEPT
                        !.current = [input |-> action.input,
                                     outcome |-> Null,
                                     error |-> action.error,
                                     cachedOutcome |-> Null],
                        !.pending = Null],
          effects |-> <<>>,
          isNew |-> TRUE]

\* case "settle/failure"
reduceSettleFailure(tuple, action) ==
    IF ~deepEqual(action.input, pendingInput(tuple.state))
    THEN tuple
    ELSE [state |-> [tuple.state EXCEPT
                        !.current =
                            [input |-> action.input,
                             outcome |-> Null,
                             error |-> action.error,
                             cachedOutcome |->
                                 ObjectMapGet(cache, action.input)],
                        !.pending = Null],
          effects |-> <<>>,
          isNew |-> TRUE]

reducer(tuple, action) ==
    CASE action.type = "evaluate" -> reduceEvaluate(tuple, action)
      [] action.type = "revalidate" -> reduceRevalidate(tuple, action)
      [] action.type = "settle/success" -> reduceSettleSuccess(tuple, action)
      [] action.type = "settle/failure" -> reduceSettleFailure(tuple, action)
      [] OTHER -> tuple

\* Mutant of reducerCache: an outcome is cached only for an input that has no
\* entry yet.
reducerCache_keepsFirst(tuple, action) ==
    IF /\ action.type = "settle/success"
       /\ deepEqual(action.input, pendingInput(tuple.state))
       /\ ObjectMapGet(cache, action.input) = Null
    THEN ObjectMapSet(cache, action.input, action.outcome)
    ELSE cache

\* cache.set(action.input, action.outcome) of case "settle/success"
reducerCache(tuple, action) ==
    IF /\ action.type = "settle/success"
       /\ deepEqual(action.input, pendingInput(tuple.state))
    THEN ObjectMapSet(cache, action.input, action.outcome)
    ELSE cache

\* Mutant of reducerCookie: the visitor key is never written to the cookie.
reducerCookie_neverWrites(tuple, action) == cookie

\* "update cookie if response contains visitor key" of case "settle/success"
reducerCookie(tuple, action) ==
    IF /\ action.type = "settle/success"
       /\ deepEqual(action.input, pendingInput(tuple.state))
       /\ action.outcome.visitorKey # NoKey
    THEN serializeVisitorKeyCookie(cookie, action.outcome.visitorKey)
    ELSE cookie

\* When ready is undefined, it counts as true
isReady(ready) == ready = "undefined" \/ ready = "true"

(***************************************************************************)
(* The hook                                                                *)
(***************************************************************************)

\* config.revalidateOnFocus
configRevalidateOnFocus == "true"

shouldRevalidateOnFocus ==
    IF options.revalidateOnFocus = "undefined"
    THEN configRevalidateOnFocus = "true"
    ELSE options.revalidateOnFocus = "true"

\* The initializer of React.useReducer.
initialTuple(initialFlagState) ==
    mkTuple([current |->
                 IF initialFlagState # Null
                 THEN IF initialFlagState.outcome # Null
                      THEN [input |-> initialFlagState.input,
                            outcome |-> initialFlagState.outcome]
                      ELSE [input |-> initialFlagState.input,
                            outcome |-> Null,
                            error |-> initialFlagState.error,
                            cachedOutcome |-> Null]
                 ELSE Null,
             pending |-> Null],
            <<>>)

\* Mutant of flagBag: settled as soon as there is a current, static or not.
flagBag_settledForStatic(st) ==
    LET rawFlags == IF st.current # Null /\ st.current.outcome # Null
                    THEN st.current.outcome.flags
                    ELSE Null
    IN  [flags |-> IF rawFlags # Null
                   THEN combineRawFlagsWithDefaultFlags(rawFlags, defaultFlags)
                   ELSE Null,
         rawFlags |-> rawFlags,
         fetching |-> st.pending # Null,
         settled |-> st.current # Null,
         visitorKey |-> NoKey]

\* The flag bag the hook returns (revalidate is the action RevalidateCallback).
flagBag(st) ==
    LET rawFlags == IF st.current # Null /\ st.current.outcome # Null
                    THEN st.current.outcome.flags
                    ELSE Null
        flags == combineRawFlagsWithDefaultFlags(rawFlags, defaultFlags)
    IN  [flags |-> IF rawFlags # Null THEN flags ELSE Null,
         rawFlags |-> rawFlags,
         fetching |-> st.pending # Null,
         settled |-> st.current # Null /\ ~st.current.input.static,
         visitorKey |->
             IF /\ st.current # Null
                /\ st.current.outcome # Null
                /\ st.current.outcome.visitorKey # NoKey
             THEN st.current.outcome.visitorKey
             ELSE IF st.current # Null /\ st.current.input.visitorKey # NoKey
                  THEN st.current.input.visitorKey
                  ELSE IF /\ st.pending # Null
                          /\ st.pending.input.visitorKey # NoKey
                       THEN st.pending.input.visitorKey
                       ELSE NoKey]

\* Mutant of visitorKeyOf: the cookie is not read.
visitorKeyOf_ignoresCookie(st) ==
    IF st.pending # Null /\ st.pending.input.visitorKey # NoKey
    THEN st.pending.input.visitorKey
    ELSE IF /\ st.current # Null
            /\ st.current.outcome # Null
            /\ st.current.outcome.visitorKey # NoKey
         THEN st.current.outcome.visitorKey
         ELSE generatedVisitorKey

\* The visitor key of the input the hook derives.
visitorKeyOf(st) ==
    IF getCookie(cookie, "hkvk") # NoKey
    THEN getCookie(cookie, "hkvk")
    ELSE IF st.pending # Null /\ st.pending.input.visitorKey # NoKey
         THEN st.pending.input.visitorKey
         ELSE IF /\ st.current # Null
                 /\ st.current.outcome # Null
                 /\ st.current.outcome.visitorKey # NoKey
              THEN st.current.outcome.visitorKey
              ELSE generatedVisitorKey

\* The input the hook derives from the state and the options.
derivedInput(st) == mkInput(visitorKeyOf(st), options.traits, FALSE)

\* What the effect runner's then/catch handlers dispatch for a response.
\* response.rejected: fetch() rejected; response.body = Null: json() threw.
settleAction(input, response) ==
    IF response.rejected
    THEN \* onRejected of then()
         [type |-> "settle/failure", input |-> input,
          error |-> "invalid-response-body"]
    ELSE IF response.body = Null
         THEN \* await response.json() throws in onFulfilled: catch()
              [type |-> "settle/failure", input |-> input,
               error |-> "network-error"]
         ELSE IF response.ok
              THEN [type |-> "settle/success", input |-> input,
                    outcome |-> response.body]
              ELSE [type |-> "settle/failure", input |-> input,
                    error |-> "response-not-ok"]

\* The responses a network call can end in.
Responses ==
    {[rejected |-> TRUE, ok |-> FALSE, body |-> Null]}
    \cup [rejected : {FALSE}, ok : BOOLEAN, body : Outcomes \cup {Null}]

\* dispatch(action): the reducer is applied to the hook's tuple.  deps is
\* whether the input effect's dependencies had changed before the action.
Dispatch(action, deps) ==
    LET tuple == mkTuple(state, effects)
        next == reducer(tuple, action)
    IN  /\ state' = next.state
        /\ effects' = next.effects
        /\ effectsChanged' = (effectsChanged \/ next.isNew)
        /\ stateChanged' = (deps \/ next.isNew)
        /\ cache' = reducerCache(tuple, action)
        /\ cookie' = reducerCookie(tuple, action)
        /\ emitted' = IF next.isNew THEN emitted + Len(next.effects)
                      ELSE emitted
        /\ effectIds' = IF next.isNew
                        THEN [i \in 1..Len(next.effects) |-> emitted + i]
                        ELSE effectIds

Init ==
    /\ options \in [initialState : InitialStates, traits : {"null"},
                    ready : {"undefined"}, revalidateOnFocus : {"undefined"}]
    /\ listener = Null
    /\ mounted = FALSE
    /\ state = initialTuple(options.initialState).state
    /\ effects = initialTuple(options.initialState).effects
    /\ effectsChanged = TRUE
    /\ stateChanged = TRUE
    /\ cache = {}
    /\ cookie = [n \in {"hkvk"} |-> NoKey]
    /\ inflight = {}
    /\ effectIds = <<>>
    /\ emitted = 0
    /\ executed = [i \in 1..MaxEffects |-> 0]
    /\ lastAccepted = 0
    /\ lastSettle = Null
    /\ discarded = FALSE

\* The first commit: the effect "add initialState to cache" runs, then the
\* input effect for the first time, then the effect runner on the empty
\* effect list.  What the input effect dispatches is reduced after them.
Mount ==
    LET seeded == IF /\ options.initialState # Null
                     /\ options.initialState.outcome # Null
                     /\ ~options.initialState.input.static
                  THEN ObjectMapSet(cache, options.initialState.input,
                                    options.initialState.outcome)
                  ELSE cache
        input == derivedInput(state)
        next == reducer(mkTuple(state, effects),
                        [type |-> "evaluate", input |-> input])
    IN  /\ ~mounted
        /\ ~discarded
        /\ mounted' = TRUE
        /\ cache' = seeded
        /\ listener' = IF shouldRevalidateOnFocus
                        THEN [ready |-> options.ready]
                        ELSE Null
        /\ IF isEmergingInput(input, state) /\ isReady(options.ready)
           THEN /\ state' = [next.state EXCEPT !.pending.cachedOutcome =
                                                  ObjectMapGet(seeded, input)]
                /\ effects' = next.effects
                /\ effectsChanged' = TRUE
                /\ stateChanged' = TRUE
                /\ emitted' = emitted + Len(next.effects)
                /\ effectIds' = [i \in 1..Len(next.effects) |-> emitted + i]
           ELSE /\ effectsChanged' = FALSE
                /\ stateChanged' = FALSE
                /\ UNCHANGED <<state, effects, emitted, effectIds>>
        /\ UNCHANGED <<options, cookie, inflight, executed, lastAccepted,
                       lastSettle, discarded>>

\* The fetches the effect runner issues for the effect list.
issued ==
    {[id |-> effectIds[i], input |-> effects[i].input,
      shown |-> flagBag(state).flags,
      cached |-> ObjectMapGet(cache, effects[i].input)] :
        i \in 1..Len(effects)}

\* A commit: the effects of the hook whose dependencies changed run, the
\* input effect before the effect runner.  What the input effect dispatches
\* is reduced after both ran.
Commit ==
    /\ mounted
    /\ effectsChanged \/ stateChanged
    /\ IF effectsChanged
       THEN /\ inflight' = inflight \cup issued
            /\ executed' = [i \in 1..MaxEffects |->
                               IF \E k \in 1..Len(effectIds) : effectIds[k] = i
                               THEN executed[i] + 1
                               ELSE executed[i]]
       ELSE UNCHANGED <<inflight, executed>>
    /\ IF stateChanged
       THEN /\ listener' = IF shouldRevalidateOnFocus
                           THEN [ready |-> options.ready]
                           ELSE Null
            /\ IF /\ isEmergingInput(derivedInput(state), state)
                  /\ isReady(options.ready)
               THEN /\ emitted < MaxEffects
                    /\ Dispatch([type |-> "evaluate",
                                 input |-> derivedInput(state)], FALSE)
               ELSE /\ effectsChanged' = FALSE
                    /\ stateChanged' = FALSE
                    /\ UNCHANGED <<state, effects, cache, cookie, emitted,
                                   effectIds>>
       ELSE /\ effectsChanged' = FALSE
            /\ UNCHANGED <<listener, stateChanged, state, effects, cache,
                           cookie, emitted, effectIds>>
    /\ UNCHANGED <<options, mounted, discarded, lastAccepted, lastSettle>>

\* The component is rendered with other traits.
SetTraits(t) ==
    /\ mounted
    /\ t # options.traits
    /\ options' = [options EXCEPT !.traits = t]
    /\ stateChanged' = TRUE
    /\ UNCHANGED <<listener, mounted, discarded, state, effects,
                   effectsChanged, cache, cookie, inflight, effectIds,
                   emitted, executed, lastAccepted, lastSettle>>

\* flagBag.revalidate()
RevalidateCallback ==
    /\ mounted
    /\ emitted < MaxEffects
    /\ Dispatch([type |-> "revalidate"], stateChanged)
    /\ UNCHANGED <<options, listener, mounted, discarded, inflight,
                   executed, lastAccepted, lastSettle>>

\* A visibilitychange event with document.visibilityState = v: handleFocus
\* runs when the hook listens.
VisibilityChange(v) ==
    /\ mounted
    /\ listener # Null
    /\ IF v = "visible" /\ isReady(listener.ready)
       THEN /\ emitted < MaxEffects
            /\ Dispatch([type |-> "revalidate"], stateChanged)
       ELSE UNCHANGED <<state, effects, effectsChanged, stateChanged, cache,
                        cookie, emitted, effectIds>>
    /\ UNCHANGED <<options, listener, mounted, discarded, inflight, executed,
                   lastAccepted, lastSettle>>

\* A network call ends and its handler dispatches the settle action.
Complete(f, response) ==
    /\ mounted
    /\ inflight' = inflight \ {f}
    /\ Dispatch(settleAction(f.input, response), stateChanged)
    /\ lastAccepted' =
           IF reducer(mkTuple(state, effects),
                      settleAction(f.input, response)).isNew
           THEN f.id
           ELSE lastAccepted
    /\ lastSettle' = f
    /\ UNCHANGED <<options, listener, mounted, discarded, executed>>

Next ==
    \/ Mount
    \/ Commit
    \/ \E t \in TraitsSet : SetTraits(t)
    \/ RevalidateCallback
    \/ \E v \in {"visible", "hidden"} : VisibilityChange(v)
    \/ \E f \in inflight : \E response \in Responses : Complete(f, response)

Spec == Init /\ [][Next]_vars

(***************************************************************************)
(* The hook with the ready and revalidateOnFocus options changing and the  *)
(* component unmounting                                                    *)
(***************************************************************************)

\* The component is rendered with another ready option.
SetReady(r) ==
    /\ mounted
    /\ r # options.ready
    /\ options' = [options EXCEPT !.ready = r]
    /\ stateChanged' = TRUE
    /\ UNCHANGED <<listener, mounted, discarded, state, effects,
                   effectsChanged, cache, cookie, inflight, effectIds,
                   emitted, executed, lastAccepted, lastSettle>>

\* The component is rendered with another revalidateOnFocus option; the
\* input effect depends on shouldRevalidateOnFocus.
SetRevalidateOnFocus(b) ==
    /\ mounted
    /\ b # options.revalidateOnFocus
    /\ options' = [options EXCEPT !.revalidateOnFocus = b]
    /\ stateChanged' =
           (stateChanged \/ shouldRevalidateOnFocus' # shouldRevalidateOnFocus)
    /\ UNCHANGED <<listener, mounted, discarded, state, effects,
                   effectsChanged, cache, cookie, inflight, effectIds,
                   emitted, executed, lastAccepted, lastSettle>>

\* The component is unmounted: the cleanup of the input effect removes the
\* listener, and what is dispatched afterwards has no effect.
Unmount ==
    /\ mounted
    /\ mounted' = FALSE
    /\ discarded' = TRUE
    /\ listener' = Null
    /\ UNCHANGED <<options, state, effects, effectsChanged, stateChanged,
                   cache, cookie, inflight, effectIds, emitted, executed,
                   lastAccepted, lastSettle>>

\* The responses of the service in this specification: no response, and a
\* success with and without a visitor key.
HookResponses ==
    {r \in Responses : r.rejected \/ (r.ok /\ r.body # Null)}

HookInit ==
    /\ options \in [initialState : InitialStates, traits : {"null"},
                    ready : {"undefined", "false"},
                    revalidateOnFocus : {"undefined", "false"}]
    /\ listener = Null
    /\ mounted = FALSE
    /\ state = initialTuple(options.initialState).state
    /\ effects = initialTuple(options.initialState).effects
    /\ effectsChanged = TRUE
    /\ stateChanged = TRUE
    /\ cache = {}
    /\ cookie = [n \in {"hkvk"} |-> NoKey]
    /\ inflight = {}
    /\ effectIds = <<>>
    /\ emitted = 0
    /\ executed = [i \in 1..MaxEffects |-> 0]
    /\ lastAccepted = 0
    /\ lastSettle = Null
    /\ discarded = FALSE

\* The effects the reducer may emit in this specification.
MaxHookEffects == 2

HookNext ==
    \/ Mount /\ emitted' <= MaxHookEffects
    \/ Commit /\ emitted' <= MaxHookEffects
    \/ \E t \in TraitsSet : SetTraits(t)
    \/ \E r \in {"true", "false"} : SetReady(r)
    \/ \E b \in {"true", "false"} : SetRevalidateOnFocus(b)
    \/ Unmount
    \/ RevalidateCallback /\ emitted' <= MaxHookEffects
    \/ \E v \in {"visible", "hidden"} :
           VisibilityChange(v) /\ emitted' <= MaxHookEffects
    \/ \E f \in inflight :
           \E response \in HookResponses : Complete(f, response)

HookSpec == HookInit /\ [][HookNext]_vars

\* The hook whose caller never calls flagBag.revalidate(): every revalidate
\* is dispatched by handleFocus.
FocusNext ==
    \/ Mount /\ emitted' <= MaxHookEffects
    \/ Commit /\ emitted' <= MaxHookEffects
    \/ \E t \in TraitsSet : SetTraits(t)
    \/ \E r \in {"true", "false"} : SetReady(r)
    \/ \E b \in {"true", "false"} : SetRevalidateOnFocus(b)
    \/ Unmount
    \/ \E v \in {"visible", "hidden"} :
           VisibilityChange(v) /\ emitted' <= MaxHookEffects
    \/ \E f \in inflight :
           \E response \in HookResponses : Complete(f, response)

FocusSpec == HookInit /\ [][FocusNext]_vars

(***************************************************************************)
(* The hook under fair scheduling: React runs the effects of every commit, *)
(* and every network call ends.  The caller revalidates only while two     *)
(* effects are left for the evaluations of the hook that follow.           *)
(***************************************************************************)

LiveNext ==
    \/ Mount
    \/ Commit
    \/ RevalidateCallback /\ emitted + 2 < MaxEffects
    \/ \E v \in {"visible", "hidden"} :
           VisibilityChange(v) /\ emitted + 2 < MaxEffects
    \/ \E f \in inflight : \E response \in Responses : Complete(f, response)

LiveSpec ==
    /\ Init
    /\ [][LiveNext]_vars
    /\ WF_vars(Mount)
    /\ WF_vars(Commit)
    /\ WF_vars(\E f \in inflight :
                   \E response \in Responses : Complete(f, response))

\* The hook left to itself under the same scheduling: the traits and the
\* ready option stay as they are and nothing dispatches revalidate.  The
\* component is given any traits, and the browser may hold the cookie.
QuietInit ==
    /\ options \in [initialState : InitialStates, traits : TraitsSet,
                    ready : {"undefined"}, revalidateOnFocus : {"undefined"}]
    /\ listener = Null
    /\ mounted = FALSE
    /\ state = initialTuple(options.initialState).state
    /\ effects = initialTuple(options.initialState).effects
    /\ effectsChanged = TRUE
    /\ stateChanged = TRUE
    /\ cache = {}
    /\ cookie \in [{"hkvk"} -> ServerKeys]
    /\ inflight = {}
    /\ effectIds = <<>>
    /\ emitted = 0
    /\ executed = [i \in 1..MaxEffects |-> 0]
    /\ lastAccepted = 0
    /\ lastSettle = Null
    /\ discarded = FALSE

QuietNext ==
    \/ Mount
    \/ Commit
    \/ \E f \in inflight : \E response \in Responses : Complete(f, response)

QuietSpec ==
    /\ QuietInit
    /\ [][QuietNext]_vars
    /\ WF_vars(Mount)
    /\ WF_vars(Commit)
    /\ WF_vars(\E f \in inflight :
                   \E response \in Responses : Complete(f, response))

(***************************************************************************)
(* Properties                                                              *)
(***************************************************************************)

\* The settle action dispatched for call f is accepted by the reducer.
Accepted(f) == deepEqual(f.input, pendingInput(state))

\* The step is the dispatch of revalidate, by the callback or by handleFocus.
RevalidateStep ==
    \/ RevalidateCallback
    \/ /\ listener # Null
       /\ isReady(listener.ready)
       /\ VisibilityChange("visible")

\* The step is the end of a network call whose settle action is accepted.
AcceptedSettleStep ==
    \E f \in inflight : \E r \in Responses : Accepted(f) /\ Complete(f, r)

\* C1: a settle (success or failure) whose input is not deep-equal to
\* pending.input, also when pending is null, changes nothing: current,
\* pending, the effect list, the cache and the cookie stay as they are.
C1_StaleSettleIsNoOp ==
    [][\A f \in inflight : \A r \in Responses :
           (~Accepted(f) /\ Complete(f, r))
               => UNCHANGED <<state, effects, effectsChanged, cache, cookie>>
      ]_vars

\* A response for an input that is no longer pending was dropped while the
\* newer input is still pending and nothing has been shown.
C1_Witness ==
    /\ lastSettle # Null
    /\ lastSettle.id # lastAccepted
    /\ state.pending # Null
    /\ ~deepEqual(state.pending.input, lastSettle.input)
    /\ state.current = Null

\* C2: the responses written into current come from requests in the order
\* they were issued: after the response of a later request was accepted, no
\* response of an earlier request is accepted.
C2_NoOlderResponseAccepted == [][lastAccepted' >= lastAccepted]_vars

\* C3: every effect the reducer emitted was executed by the runner once, or
\* is in the effect list the runner has yet to run (and was not executed).
C3_EveryEffectExecutedOnce ==
    \A i \in 1..emitted :
        \/ executed[i] = 1
        \/ /\ executed[i] = 0
           /\ effectsChanged
           /\ \E k \in 1..Len(effectIds) : effectIds[k] = i

\* C4: when the settle/failure of a call is accepted, the flag bag's flags
\* are the ones shown when the call was issued.
C4_FailureKeepsFlags ==
    [][\A f \in inflight : \A r \in Responses :
           (/\ Accepted(f)
            /\ settleAction(f.input, r).type = "settle/failure"
            /\ Complete(f, r))
               => flagBag(state').flags = f.shown
      ]_vars

\* C5: the end of a call that was rejected (no response) is the dispatch of
\* settle/failure with network-error, and the end of a call whose response
\* body does not parse is the dispatch of settle/failure with
\* invalid-response-body.
C5_ErrorClassification ==
    [][\A f \in inflight : \A r \in Responses :
           Complete(f, r) =>
               /\ r.rejected =>
                      state' = reducer(mkTuple(state, effects),
                                       [type |-> "settle/failure",
                                        input |-> f.input,
                                        error |-> "network-error"]).state
               /\ (~r.rejected /\ r.ok /\ r.body = Null) =>
                      state' = reducer(mkTuple(state, effects),
                                       [type |-> "settle/failure",
                                        input |-> f.input,
                                        error |-> "invalid-response-body"]
                                      ).state
      ]_vars

\* C6: the end of a call whose response has a non-success status is the
\* dispatch of settle/failure with response-not-ok, whatever the body.
C6_NotOkIsResponseNotOk ==
    [][\A f \in inflight : \A r \in Responses :
           (Complete(f, r) /\ ~r.rejected /\ ~r.ok) =>
               state' = reducer(mkTuple(state, effects),
                                [type |-> "settle/failure",
                                 input |-> f.input,
                                 error |-> "response-not-ok"]).state
      ]_vars

\* C7: an accepted settle/success(input, outcome) leaves cache.get(input) =
\* outcome, current = {input, outcome} and pending = null, and no other step
\* after the seeding of the cache changes the cache.
C7_CacheHoldsLastSuccess ==
    [][/\ \A f \in inflight : \A r \in Responses :
              (/\ Accepted(f)
               /\ settleAction(f.input, r).type = "settle/success"
               /\ Complete(f, r))
                  => /\ ObjectMapGet(cache', f.input) = r.body
                     /\ state'.current = [input |-> f.input,
                                          outcome |-> r.body]
                     /\ state'.pending = Null
       /\ (mounted /\ cache' # cache)
              => \E f \in inflight : \E r \in Responses :
                     /\ Accepted(f)
                     /\ settleAction(f.input, r).type = "settle/success"
                     /\ Complete(f, r)
      ]_vars

\* A response was accepted as a success for an input that was cached before
\* with another outcome: the cache holds the new outcome.
C7_Witness ==
    /\ lastSettle # Null
    /\ lastSettle.id = lastAccepted
    /\ state.current # Null
    /\ state.current.outcome # Null
    /\ lastSettle.cached # Null
    /\ lastSettle.cached # state.current.outcome
    /\ ObjectMapGet(cache, state.current.input) = state.current.outcome
    /\ state.pending = Null

\* C8: an accepted settle/failure(input, error) leaves current = {input,
\* outcome: null, error, cachedOutcome: what the cache holds for the input at
\* that moment} and pending = null.
C8_FailureKeepsCachedOutcome ==
    [][\A f \in inflight : \A r \in Responses :
           (/\ Accepted(f)
            /\ settleAction(f.input, r).type = "settle/failure"
            /\ Complete(f, r))
               => /\ state'.current =
                         [input |-> f.input,
                          outcome |-> Null,
                          error |-> settleAction(f.input, r).error,
                          cachedOutcome |-> ObjectMapGet(cache, f.input)]
                  /\ state'.pending = Null
      ]_vars

\* A call failed and was accepted after the cache entry of its input had
\* changed since the call was issued: current holds the newer entry.
C8_Witness ==
    /\ lastSettle # Null
    /\ lastSettle.id = lastAccepted
    /\ state.current # Null
    /\ state.current.outcome = Null
    /\ state.current.cachedOutcome # Null
    /\ state.current.cachedOutcome # lastSettle.cached
    /\ state.pending = Null

\* C9: a step that dispatches evaluate or revalidate leaves current as it
\* is, and with it the flag bag's flags, rawFlags and settled; current
\* changes only in a step that ends a call whose settle is accepted.
C9_RequestsKeepCurrent ==
    [][/\ (emitted' # emitted \/ RevalidateStep)
              => /\ state'.current = state.current
                 /\ flagBag(state').flags = flagBag(state).flags
                 /\ flagBag(state').rawFlags = flagBag(state).rawFlags
                 /\ flagBag(state').settled = flagBag(state).settled
       /\ state'.current # state.current => AcceptedSettleStep
      ]_vars

\* An evaluation of another input is pending while the flags of the settled
\* input are shown.
C9_Witness ==
    /\ state.current # Null
    /\ state.current.outcome # Null
    /\ state.pending # Null
    /\ ~deepEqual(state.pending.input, state.current.input)
    /\ emitted > 0
    /\ flagBag(state).flags # Null

C11_ReadinessGate ==
    [][options.ready = "false" => emitted' = emitted]_vars

\* The last change of the state was the acceptance of a settle/failure, and
\* the traits are those of the failed input.
FailureSettled ==
    /\ lastAccepted > 0
    /\ state.pending = Null
    /\ state.current # Null
    /\ state.current.outcome = Null
    /\ options.traits = state.current.input.traits

\* C12: after a settle/failure was accepted, and while the traits, the ready
\* option and the cookie are as they were, a commit emits no fetch effect:
\* only a call of revalidate() or a visibilitychange event does.
C12_NoAutomaticRetry ==
    [][(FailureSettled /\ Commit) => emitted' = emitted]_vars

\* What C13 says of settled and fetching in state st.
SettledAndFetching(st) ==
    /\ flagBag(st).settled =
           (st.current # Null /\ st.current.input.static = FALSE)
    /\ flagBag(st).fetching = (st.pending # Null)
    /\ (st.current # Null /\ st.current.input.static)
           => ~flagBag(st).settled

\* C13: in every state settled = (current # null and current's input is not
\* static) and fetching = (pending # null); settled is false while current
\* is of a static input, with or without an outcome, and it becomes true
\* only in a step that accepts the settle of a non-static input.
C13_SettledAndFetching ==
    /\ SettledAndFetching(state)
    /\ [][/\ SettledAndFetching(state')
          /\ (flagBag(state').settled /\ ~flagBag(state).settled)
                 => \E f \in inflight : \E r \in HookResponses :
                        /\ ~f.input.static
                        /\ Accepted(f)
                        /\ Complete(f, r)
         ]_vars

\* The settle/success of a static input was accepted: current holds its
\* outcome and settled is false.
C13_Witness ==
    /\ lastAccepted > 0
    /\ state.current # Null
    /\ state.current.input.static
    /\ state.current.outcome # Null
    /\ state.pending = Null
    /\ ~flagBag(state).settled
    /\ ~flagBag(state).fetching

\* C14: a step that accepts a settle leaves pending null; pending is set
\* only by a step that emits a fetch (evaluate, revalidate); and current
\* changes only in a step that finds pending non-null and leaves it null.
\* So between two dispatches of evaluate or revalidate, and after the last,
\* at most one settle changes current.
C14_OneAcceptedPerCycle ==
    [][/\ \A f \in inflight : \A r \in Responses :
              (Accepted(f) /\ Complete(f, r)) => state'.pending = Null
       /\ (state'.pending # Null /\ state'.pending # state.pending)
              => emitted' = emitted + 1
       /\ state'.current # state.current
              => /\ state.pending # Null
                 /\ state'.pending = Null
                 /\ emitted' = emitted
      ]_vars

\* Two calls for the same input were in flight: the response of one was
\* accepted, the response of the other arrived after it and was dropped.
C14_Witness ==
    /\ lastAccepted > 0
    /\ lastSettle # Null
    /\ lastSettle.id # lastAccepted
    /\ state.pending = Null
    /\ state.current # Null
    /\ deepEqual(state.current.input, lastSettle.input)
    /\ inflight = {}

\* There is a fetch for the pending input in the effect list the runner has
\* yet to run, or in flight.
PendingHasFetch ==
    state.pending # Null =>
        \/ /\ effectsChanged
           /\ \E i \in 1..Len(effects) :
                  deepEqual(effects[i].input, state.pending.input)
        \/ \E f \in inflight : deepEqual(f.input, state.pending.input)

\* The bound on the effects never stops a commit that evaluates.
CommitNotCut ==
    (/\ mounted
     /\ stateChanged
     /\ isEmergingInput(derivedInput(state), state)
     /\ isReady(options.ready)) => emitted < MaxEffects

InputEffectStep == Mount \/ (stateChanged /\ Commit)

\* C16: a run of the input effect dispatches evaluate for the derived input
\* if and only if the ready option is not false and the derived input is
\* not deep-equal to pending.input when an input is pending, not deep-equal
\* to current.input when none is pending and there is a current, and in
\* any case when there is neither.
C16_EvaluateOnlyEmerging ==
    [][InputEffectStep =>
           LET input == derivedInput(state)
               evaluated ==
                   /\ emitted' = emitted + 1
                   /\ state'.pending # Null
                   /\ state'.pending.input = input
                   /\ effects' = <<[type |-> "fetch", input |-> input]>>
               unevaluated ==
                   UNCHANGED <<state, effects, emitted, effectIds>>
               emerging ==
                   \/ /\ state.pending # Null
                      /\ ~deepEqual(input, state.pending.input)
                   \/ /\ state.pending = Null
                      /\ state.current # Null
                      /\ ~deepEqual(input, state.current.input)
                   \/ /\ state.pending = Null
                      /\ state.current = Null
           IN  IF options.ready # "false" /\ emerging
               THEN evaluated
               ELSE unevaluated
      ]_vars

\* While another input was pending, the input of current was derived again
\* and evaluated: it is pending, and the call for the other input is still
\* in flight.
C16_Witness ==
    /\ state.current # Null
    /\ state.pending # Null
    /\ deepEqual(state.pending.input, state.current.input)
    /\ emitted = 2
    /\ effectIds = <<2>>
    /\ \E f \in inflight :
           f.id = 1 /\ ~deepEqual(f.input, state.pending.input)

\* The step is a visibilitychange event with document.visibilityState = v
\* that reaches the reducer with an input to revalidate.
FocusEvent(v) ==
    /\ state.current # Null \/ state.pending # Null
    /\ VisibilityChange(v)

\* C17: a visibilitychange event dispatches revalidate, once, if and only
\* if the document is visible, the ready option holds and revalidateOnFocus
\* is enabled; so none is dispatched once revalidateOnFocus is false or the
\* component is unmounted.
C17_FocusRevalidates ==
    [][\A v \in {"visible", "hidden"} :
           FocusEvent(v) =>
               IF /\ v = "visible"
                  /\ isReady(options.ready)
                  /\ shouldRevalidateOnFocus
               THEN emitted' = emitted + 1
               ELSE emitted' = emitted
      ]_vars

\* The visitor key the claimed priority gives: the cookie if it is
\* non-empty, else the visitor key of the pending input if there is one,
\* else the key the server assigned in current's successful outcome if there
\* is one, else the generated identifier.
KeyByPriority ==
    IF cookie["hkvk"] # NoKey
    THEN cookie["hkvk"]
    ELSE IF state.pending # Null /\ state.pending.input.visitorKey # NoKey
         THEN state.pending.input.visitorKey
         ELSE IF /\ state.current # Null
                 /\ state.current.outcome # Null
                 /\ state.current.outcome.visitorKey # NoKey
              THEN state.current.outcome.visitorKey
              ELSE generatedVisitorKey

\* An accepted settle/success whose outcome has a visitor key writes it to
\* the cookie; no other step changes the cookie, a stale settle/success
\* included.
CookieWrittenOnAcceptedSuccess ==
    /\ \A f \in inflight : \A r \in HookResponses :
           (/\ settleAction(f.input, r).type = "settle/success"
            /\ Complete(f, r))
               => IF Accepted(f) /\ r.body.visitorKey # NoKey
                  THEN cookie' = [cookie EXCEPT !["hkvk"] = r.body.visitorKey]
                  ELSE cookie' = cookie
    /\ cookie' # cookie
           => \E f \in inflight : \E r \in HookResponses :
                  /\ Accepted(f)
                  /\ settleAction(f.input, r).type = "settle/success"
                  /\ Complete(f, r)

\* C18: in every state the visitor key of the derived input is the one the
\* priority gives (cookie, pending input's key, server-assigned key of
\* current's successful outcome, generated identifier), and every input
\* that is evaluated has it; an accepted settle/success whose outcome has a
\* visitor key writes it to the cookie, and no stale settle/success and no
\* other step writes the cookie.
C18_VisitorKeyPriority ==
    /\ derivedInput(state).visitorKey = KeyByPriority
    /\ [][/\ derivedInput(state').visitorKey = KeyByPriority'
          /\ (InputEffectStep /\ emitted' # emitted)
                 => state'.pending.input.visitorKey = KeyByPriority
          /\ CookieWrittenOnAcceptedSuccess
         ]_vars

\* The response for the input with the generated key was accepted and its
\* server-assigned key written to the cookie: the derived input has the
\* cookie's key, which is not the key of current's input.
C18_Witness ==
    /\ lastAccepted > 0
    /\ state.pending = Null
    /\ state.current # Null
    /\ state.current.input.visitorKey = generatedVisitorKey
    /\ state.current.outcome # Null
    /\ cookie["hkvk"] = "srv"
    /\ derivedInput(state).visitorKey = "srv"

\* Nothing is pending and the input the hook derives is current's input.
Quiescent ==
    /\ state.pending = Null
    /\ state.current # Null
    /\ deepEqual(derivedInput(state), state.current.input)

=============================================================================
